---- MODULE Spec2Model ----
(***************************************************************************)
(* A model of src/algorithm.py: class Matcher (generate_matches,            *)
(* verify_matches) and the retry loop test_matcher that drives it.          *)
(*                                                                          *)
(* Elements are opaque strings.  A group is a set of elements; the input    *)
(* `sets` is an ordered sequence of pairwise disjoint groups.  Python       *)
(* iterates a group in some fixed order; elements are named here so that    *)
(* this order is the order of Names (any other fixed order is a renaming).  *)
(* Python's 0-based set indices are 1-based here.                           *)
(***************************************************************************)
EXTENDS Integers, Sequences, FiniteSets, TLC

\* ------------------------------------------------------------------ bounds
\* The largest number of groups in an input.
MaxGroups == 3
\* The largest number of elements in the Universe of an input.
MaxElems == 5
\* The largest Universe of an input that is run twice on the same draws.
MaxReplayElems == 4
\* The largest Universe whose every mapping verify_matches is applied to.
MaxMapElems == 3
\* The number of verify_matches calls made in a row on one mapping.
MaxCalls == 3
\* The largest number of entries of the matches handed to send_mails.
MaxEntries == 3
\* The largest length of the email_mapping handed to send_mails.
MaxMapping == 2
\* The attempt counter saturates here (the loop itself is unbounded).
MaxAttempts == 3

\* The element names, in the iteration order of a group.
Names == <<"A", "B", "C", "D", "E", "F", "G", "H">>

VARIABLES
    sets,        \* Matcher.sets: the ordered groups
    matches,     \* Matcher.matches: element -> element, kept across attempts
    unmatched,   \* generate_matches' worklist of <<elem, set_idx>> pairs
    pc,          \* where test_matcher is: "generate", "loop", "verify", "done", "error"
    is_valid,    \* the result of the last verify_matches call
    attempts,    \* generate_matches calls started so far (saturating)
    err,         \* the exception raised, "none" when there is none
    calls,       \* verify_matches calls made in a row on one mapping
    run,         \* which of two successive test_matcher runs is executing
    tape,        \* the draws random.choice made in run 1, replayed in run 2
    history,     \* the matches returned by each attempt of the current run
    first,       \* what run 1 did: its history, its outcome, its result
    before,      \* self.matches as it was when the current attempt began
    dropped,     \* the elements that found both pools empty in this attempt
    mpc,         \* where send_mails is
    entries,     \* send_mails' matches.items(), in the order of the dict
    email_mapping, \* send_mails' email_mapping, a list of one-key dicts
    item,        \* the position of send_mails' for loop in entries
    sends,       \* the server.send_message calls made, each with its outcome
    logs         \* the records send_mails logged

mainvars == <<sets, matches, unmatched, pc, is_valid, attempts, err,
              before, dropped>>
replayvars == <<run, tape, history, first>>
mailvars == <<mpc, entries, email_mapping, item, sends, logs>>
vars == <<sets, matches, unmatched, pc, is_valid, attempts, err,
          calls, run, tape, history, first, before, dropped,
          mpc, entries, email_mapping, item, sends, logs>>

\* ------------------------------------------------------------- helpers
Min(a, b) == IF a < b THEN a ELSE b

RECURSIVE SumSeq(_)
SumSeq(s) == IF s = <<>> THEN 0 ELSE Head(s) + SumSeq(Tail(s))

\* The sum of the first n entries of sz.
SumTo(sz, n) == SumSeq(SubSeq(sz, 1, n))

\* The inputs: a sequence of group sizes stands for the groups that take
\* consecutive names, e.g. <<2, 0, 1>> for <<{"A","B"}, {}, {"C"}>>.
GroupSizes ==
    { sz \in UNION { [1..g -> 0..MaxElems] : g \in 0..MaxGroups } :
        SumSeq(sz) <= MaxElems }

MakeSets(sz) ==
    [ i \in 1..Len(sz) |->
        { Names[j] : j \in (SumTo(sz, i - 1) + 1)..SumTo(sz, i) } ]

\* set().union(*self.sets)
Universe(ss) == UNION { ss[i] : i \in 1..Len(ss) }

\* dict.values()
Values(m) == { m[k] : k \in DOMAIN m }

\* defaultdict(str) after construction: no key
EmptyMatches == [ e \in {} |-> "" ]

\* self.matches[k] = v
Put(m, k, v) == [ x \in DOMAIN m \cup {k} |-> IF x = k THEN v ELSE m[x] ]

\* [(elem, idx) for elem in s], s = ss[idx]
GroupPairs(ss, idx) ==
    LET inGroup(n) == n \in ss[idx]
        order == SelectSeq(Names, inGroup)
    IN  [ j \in 1..Len(order) |-> <<order[j], idx>> ]

RECURSIVE ElementsUpTo(_, _)
ElementsUpTo(ss, n) ==
    IF n = 0 THEN <<>> ELSE ElementsUpTo(ss, n - 1) \o GroupPairs(ss, n)

\* elements = [(elem, idx) for idx, s in enumerate(self.sets) for elem in s]
Elements(ss) == ElementsUpTo(ss, Len(ss))

\* ------------------------------------------------- Matcher.generate_matches
\* A Matcher that shares its dict with the Matcher built before it.
SharedMatches(prev) == prev

\* Matcher.__init__: self.matches = defaultdict(str), a new dict whatever the
\* Matcher built before this one (if any) holds in its own.
NewMatches(prev) == EmptyMatches

\* A generate_matches that begins by clearing self.matches.
ClearedMatches(m) == EmptyMatches

\* generate_matches goes on with self.matches as the last call left it:
\* nothing in lines 20-27 clears or replaces the dict.
KeptMatches(m) == m

\* The primary pool without the "set_idx != current_set_idx" condition.
PrimaryPoolAnyGroup(un, cur, m) ==
    LET ok(p) == p[1] \notin Values(m)
    IN  SelectSeq(un, ok)

\* The primary pool without the "not in self.matches.values()" condition.
PrimaryPoolAnyTarget(un, cur, m) ==
    LET ok(p) == p[2] # cur[2]
    IN  SelectSeq(un, ok)

\* possible_matches = [(elem, set_idx) for elem, set_idx in unmatched
\*     if set_idx != current_set_idx and elem not in self.matches.values()]
PrimaryPool(un, cur, m) ==
    LET ok(p) == p[2] # cur[2] /\ p[1] \notin Values(m)
    IN  SelectSeq(un, ok)

\* The fallback pool with the group comparison inverted (== for !=).
FallbackPoolSameGroup(els, cur, m) ==
    LET ok(p) == p[2] = cur[2] /\ p[1] # cur[1] /\ p[1] \notin Values(m)
    IN  SelectSeq(els, ok)

\* The fallback pool without the "not in self.matches.values()" condition.
FallbackPoolAnyTarget(els, cur, m) ==
    LET ok(p) == p[2] # cur[2] /\ p[1] # cur[1]
    IN  SelectSeq(els, ok)

\* possible_matches = [(elem, set_idx) for elem, set_idx in elements
\*     if set_idx != current_set_idx and elem != current_elem
\*     and elem not in self.matches.values()]
FallbackPool(els, cur, m) ==
    LET ok(p) == p[2] # cur[2] /\ p[1] # cur[1] /\ p[1] \notin Values(m)
    IN  SelectSeq(els, ok)

\* The candidates without the fallback of lines 39-45.
PrimaryOnly(un, els, cur, m) == PrimaryPool(un, cur, m)

\* The candidates taken from the whole Universe at once.
FallbackAlways(un, els, cur, m) == FallbackPool(els, cur, m)

\* "if not possible_matches:" replaces the primary pool by the fallback pool
PossibleMatches(un, els, cur, m) ==
    IF PrimaryPool(un, cur, m) = <<>>
        THEN FallbackPool(els, cur, m)
        ELSE PrimaryPool(un, cur, m)

\* The draw made without looking at the pool.
AlwaysDraw(pm) == TRUE

\* "if possible_matches:" guards the random draw
HasCandidates(pm) == pm # <<>>

\* ------------------------------------------------- Matcher.verify_matches
\* next(i for i, s in enumerate(self.sets) if elem in s); 0 stands for the
\* StopIteration raised when no group holds elem.
SetIndex(ss, e) ==
    IF \E i \in 1..Len(ss) : e \in ss[i]
        THEN CHOOSE i \in 1..Len(ss) :
                 e \in ss[i] /\ \A j \in 1..(i - 1) : e \notin ss[j]
        ELSE 0

\* "if len(self.matches) != len(elements): return False"
SizeMatches(m, ss) == Cardinality(DOMAIN m) = Cardinality(Universe(ss))

\* The loop over self.matches.items(): every pair lies across two groups.
CrossGroup(m, ss) == \A k \in DOMAIN m : SetIndex(ss, k) # SetIndex(ss, m[k])

\* verify_matches without the "if not self.matches" test of lines 56-57.
VerifyWithoutEmptyTest(m, ss) ==
    IF ~SizeMatches(m, ss) THEN FALSE ELSE CrossGroup(m, ss)

\* verify_matches without the size comparison of lines 60-62.
VerifyWithoutSize(m, ss) ==
    IF DOMAIN m = {} THEN FALSE ELSE CrossGroup(m, ss)

verify_matches(m, ss) ==
    IF DOMAIN m = {} THEN FALSE
    ELSE IF ~SizeMatches(m, ss) THEN FALSE
    ELSE CrossGroup(m, ss)

\* A verify_matches that reads self.matches[elem] for every element: the
\* defaultdict inserts the default "" for each element that is no key.
DefaultsInserted(m, ss) ==
    [ e \in DOMAIN m \cup Universe(ss) |-> IF e \in DOMAIN m THEN m[e] ELSE "" ]

\* verify_matches only reads self.matches (bool, len, items) and self.sets:
\* the dict it leaves behind is the dict it found.
MatchesAfterVerify(m, ss) == m

\* verify_matches raises when the pair loop is reached and a lookup finds no
\* group (the scan order of the dict is abstracted: any failing lookup counts).
VerifyRaises(m, ss) ==
    /\ DOMAIN m # {}
    /\ SizeMatches(m, ss)
    /\ \E k \in DOMAIN m : SetIndex(ss, k) = 0 \/ SetIndex(ss, m[k]) = 0

\* ------------------------------------------------------------ test_matcher
\* matcher = Matcher(sets), for every input of the bounds
InitMatcher ==
    /\ \E sz \in GroupSizes : sets = MakeSets(sz)
    /\ matches = NewMatches(EmptyMatches)
    /\ unmatched = <<>>
    /\ pc = "generate"
    /\ is_valid = FALSE
    /\ attempts = 0
    /\ err = "none"
    /\ before = EmptyMatches
    /\ dropped = {}

\* send_mails is not running.
MailIdle ==
    /\ mpc = "idle"
    /\ entries = <<>>
    /\ email_mapping = <<>>
    /\ item = 1
    /\ sends = <<>>
    /\ logs = <<>>

Init ==
    /\ InitMatcher
    /\ MailIdle
    /\ calls = 0
    /\ run = 1
    /\ tape = <<>>
    /\ history = <<>>
    /\ first = <<>>

\* matches = matcher.generate_matches(): entry, lines 23-27
StartAttempt ==
    /\ pc = "generate"
    /\ unmatched' = Elements(sets)
    /\ pc' = "loop"
    /\ attempts' = Min(attempts + 1, MaxAttempts)
    /\ matches' = KeptMatches(matches)
    /\ before' = matches'
    /\ dropped' = {}
    /\ UNCHANGED <<sets, is_valid, err>>

\* One iteration of "while unmatched:", lines 29-50.  i is the position
\* random.choice draws in possible_matches, 0 when no draw is made.
Iteration(i) ==
    /\ pc = "loop"
    /\ unmatched # <<>>
    /\ LET cur == Head(unmatched)
           rest == Tail(unmatched)
           pm == PossibleMatches(rest, Elements(sets), cur, matches)
       IN  /\ unmatched' = rest
           /\ dropped' = IF pm = <<>> THEN dropped \cup {cur[1]} ELSE dropped
           /\ IF HasCandidates(pm)
                THEN IF pm = <<>>
                       THEN /\ i = 0
                            /\ err' = "IndexError"
                            /\ pc' = "error"
                            /\ UNCHANGED matches
                       ELSE /\ i \in 1..Len(pm)
                            /\ matches' = Put(matches, cur[1], pm[i][1])
                            /\ UNCHANGED <<pc, err>>
                ELSE /\ i = 0
                     /\ UNCHANGED <<matches, pc, err>>
    /\ UNCHANGED <<sets, is_valid, attempts, before>>

\* "return dict(self.matches)" once the worklist is empty, line 52
ReturnMatches ==
    /\ pc = "loop"
    /\ unmatched = <<>>
    /\ pc' = "verify"
    /\ UNCHANGED <<sets, matches, unmatched, is_valid, attempts, err,
                   before, dropped>>

\* is_valid = matcher.verify_matches(), line 81
CallVerify ==
    /\ IF VerifyRaises(matches, sets)
         THEN /\ err' = "StopIteration"
              /\ UNCHANGED <<is_valid, matches>>
         ELSE /\ is_valid' = verify_matches(matches, sets)
              /\ matches' = MatchesAfterVerify(matches, sets)
              /\ UNCHANGED err
    /\ UNCHANGED <<sets, unmatched, attempts, before, dropped>>

\* is_valid = matcher.verify_matches(); if is_valid: break, lines 81-83
VerifyAttempt ==
    /\ pc = "verify"
    /\ CallVerify
    /\ pc' = IF err' # "none" THEN "error"
             ELSE IF is_valid' THEN "done" ELSE "generate"

\* The positions a draw can take.
Draws == 0..MaxElems

GenerateStart == StartAttempt /\ UNCHANGED <<calls, run, tape, history, first, mailvars>>

LoopStep ==
    /\ \E i \in Draws : Iteration(i)
    /\ UNCHANGED <<calls, run, tape, history, first, mailvars>>

GenerateReturn == ReturnMatches /\ UNCHANGED <<calls, run, tape, history, first, mailvars>>

Verify == VerifyAttempt /\ UNCHANGED <<calls, run, tape, history, first, mailvars>>

Next == GenerateStart \/ LoopStep \/ GenerateReturn \/ Verify

Spec == Init /\ [][Next]_vars

\* test_matcher is a sequential loop: it takes its next step as long as it has one.
SpecFair == Spec /\ WF_vars(Next)

\* ---------------------------------- generate_matches called after success
\* A caller other than test_matcher calls matcher.generate_matches() and
\* matcher.verify_matches() once more on a Matcher whose assignment validated.
AttemptAgain ==
    /\ pc = "done"
    /\ unmatched' = Elements(sets)
    /\ pc' = "loop"
    /\ attempts' = Min(attempts + 1, MaxAttempts)
    /\ matches' = KeptMatches(matches)
    /\ before' = matches'
    /\ dropped' = {}
    /\ UNCHANGED <<sets, is_valid, err>>
    /\ UNCHANGED <<calls, run, tape, history, first, mailvars>>

NextAgain == GenerateStart \/ LoopStep \/ GenerateReturn \/ Verify \/ AttemptAgain

SpecAgain == Init /\ [][NextAgain]_vars

\* ------------------------------------------- SecretSantaEmailer.send_mails
\* src/secret_santa.py, lines 93-128.  matches.items() is a sequence of
\* <<sender_name, recipient_name>> pairs with distinct senders; email_mapping
\* is a list of one-key dicts, each a <<name, address>> pair here.
MailNames == {"A", "B", "C"}

Addresses == {"", "x@mail"}

RECURSIVE InjectiveSeqs(_, _)
InjectiveSeqs(S, n) ==
    IF n = 0 THEN { <<>> }
    ELSE LET shorter == InjectiveSeqs(S, n - 1)
         IN  shorter \cup
             { Append(q, x) : q \in { r \in shorter : Len(r) = n - 1 },
                              x \in S }

DistinctSenders(q) ==
    \A i \in 1..Len(q) : \A j \in 1..Len(q) : i # j => q[i][1] # q[j][1]

\* The dicts of at most MaxEntries entries, each in its insertion order.
MatchesItems ==
    { q \in InjectiveSeqs({ <<a, b>> \in MailNames \X MailNames : a # b },
                          MaxEntries) : DistinctSenders(q) }

EmailMappings ==
    UNION { [1..n -> MailNames \X Addresses] : n \in 0..MaxMapping }

\* email_dict = {k: v for d in email_mapping for k, v in d.items()}, line 100
RECURSIVE EmailDict(_)
EmailDict(em) ==
    IF em = <<>> THEN EmptyMatches
    ELSE LET last == em[Len(em)]
         IN  Put(EmailDict(SubSeq(em, 1, Len(em) - 1)), last[1], last[2])

\* email_dict.get(sender_name), line 109
GetEmail(d, name) == IF name \in DOMAIN d THEN d[name] ELSE "None"

\* "if not sender_email:", line 110
NoEmail(a) == a \in {"None", ""}

\* What a call on the server can raise.
ServerErrors == {"SMTPRecipientsRefused", "SMTPServerDisconnected"}

\* An inner handler that names one exception class only.
OnlyRefusalsCaught(exc) == exc = "SMTPRecipientsRefused"

\* "except Exception as e:", line 123: whatever the message creation or
\* server.send_message raises is caught inside the loop.
CaughtInLoop(exc) == TRUE

InitMail ==
    /\ sets = <<>>
    /\ matches = EmptyMatches
    /\ unmatched = <<>>
    /\ pc = "idle"
    /\ is_valid = FALSE
    /\ attempts = 0
    /\ err = "none"
    /\ calls = 0
    /\ run = 1
    /\ tape = <<>>
    /\ history = <<>>
    /\ first = <<>>
    /\ before = EmptyMatches
    /\ dropped = {}
    /\ mpc = "connect"
    /\ entries \in MatchesItems
    /\ email_mapping \in EmailMappings
    /\ item = 1
    /\ sends = <<>>
    /\ logs = <<>>

NoMatcherStep ==
    UNCHANGED <<sets, matches, unmatched, pc, is_valid, attempts, err,
                calls, run, tape, history, first, before, dropped>>

\* The outer handler, lines 126-128: log the failure and raise it.
RaiseToCaller(where) ==
    /\ logs' = Append(logs, <<"error", "server">>)
    /\ mpc' = where

\* smtplib.SMTP(self.config.smtp_server, self.config.port), line 103
Connect ==
    /\ mpc = "connect"
    /\ \E ok \in BOOLEAN :
           IF ok THEN mpc' = "starttls" /\ UNCHANGED logs
                 ELSE RaiseToCaller("raised")
    /\ UNCHANGED <<entries, email_mapping, item, sends>>
    /\ NoMatcherStep

\* server.starttls(), line 104
StartTls ==
    /\ mpc = "starttls"
    /\ \E ok \in BOOLEAN :
           IF ok THEN mpc' = "login" /\ UNCHANGED logs
                 ELSE RaiseToCaller("raised")
    /\ UNCHANGED <<entries, email_mapping, item, sends>>
    /\ NoMatcherStep

\* server.login(self.config.username, self.config.password), line 105
Login ==
    /\ mpc = "login"
    /\ \E ok \in BOOLEAN :
           IF ok THEN mpc' = "loop" /\ UNCHANGED logs
                 ELSE RaiseToCaller("raised")
    /\ UNCHANGED <<entries, email_mapping, item, sends>>
    /\ NoMatcherStep

\* One pass of "for sender_name, recipient_name in matches.items():",
\* lines 107-124
HandleEntry ==
    /\ mpc = "loop"
    /\ item <= Len(entries)
    /\ LET sender_name == entries[item][1]
           recipient_name == entries[item][2]
           sender_email == GetEmail(EmailDict(email_mapping), sender_name)
       IN  IF NoEmail(sender_email)
             THEN /\ logs' = Append(logs, <<"error", sender_name>>)
                  /\ item' = item + 1
                  /\ UNCHANGED <<mpc, sends>>
             ELSE \E result \in {"ok"} \cup ServerErrors :
                    /\ sends' = Append(sends, <<sender_email, sender_name,
                                                recipient_name, result>>)
                    /\ IF result = "ok"
                         THEN /\ logs' = Append(logs, <<"info", sender_name>>)
                              /\ item' = item + 1
                              /\ UNCHANGED mpc
                         ELSE IF CaughtInLoop(result)
                           THEN /\ logs' = Append(logs, <<"error", sender_name>>)
                                /\ item' = item + 1
                                /\ UNCHANGED mpc
                           ELSE /\ RaiseToCaller("raised_in_loop")
                                /\ UNCHANGED item
    /\ UNCHANGED <<entries, email_mapping>>
    /\ NoMatcherStep

\* The end of the "with" block of line 103 once the loop is over:
\* smtplib.SMTP.__exit__ sends QUIT, passes over a dropped connection and
\* raises SMTPResponseException on any reply other than 221, which the outer
\* handler logs and raises.
CloseSession ==
    /\ mpc = "loop"
    /\ item > Len(entries)
    /\ \E reply \in {"221", "SMTPServerDisconnected", "other"} :
           IF reply = "other"
             THEN RaiseToCaller("raised_at_close")
             ELSE mpc' = "returned" /\ UNCHANGED logs
    /\ UNCHANGED <<entries, email_mapping, item, sends>>
    /\ NoMatcherStep

NextMail == Connect \/ StartTls \/ Login \/ HandleEntry \/ CloseSession

SpecMail == InitMail /\ [][NextMail]_vars

\* ------------------------------------------------------------- the inputs
\* One group holds a strict majority of the Universe (a single non-empty
\* group holding every element is the extreme case).
HasMajorityGroup(ss) ==
    \E i \in 1..Len(ss) : 2 * Cardinality(ss[i]) > Cardinality(Universe(ss))

NonEmptyGroups(ss) == { i \in 1..Len(ss) : ss[i] # {} }

\* At least two non-empty groups, none holding more than half of the elements.
ValidInput(ss) == Cardinality(NonEmptyGroups(ss)) >= 2 /\ ~HasMajorityGroup(ss)

\* ------------------------------------- verify_matches on arbitrary mappings
\* Every mapping from elements of U to elements of U, total or partial.
Mappings(U) == UNION { [D -> U] : D \in SUBSET U }

InitValidate ==
    /\ \E sz \in GroupSizes :
           /\ SumSeq(sz) <= MaxMapElems
           /\ sets = MakeSets(sz)
    /\ matches \in Mappings(Universe(sets))
    /\ unmatched = <<>>
    /\ pc = "verify"
    /\ is_valid = FALSE
    /\ attempts = 0
    /\ err = "none"
    /\ calls = 0
    /\ run = 1
    /\ tape = <<>>
    /\ history = <<>>
    /\ first = <<>>
    /\ before = EmptyMatches
    /\ dropped = {}
    /\ MailIdle

\* matcher.verify_matches() called once more on the same Matcher
VerifyAgain ==
    /\ pc = "verify"
    /\ calls < MaxCalls
    /\ CallVerify
    /\ pc' = IF err' # "none" THEN "error" ELSE "verify"
    /\ calls' = calls + 1
    /\ UNCHANGED <<run, tape, history, first, mailvars>>

NextValidate == VerifyAgain

SpecValidate == InitValidate /\ [][NextValidate]_vars

\* ------------------------------- two runs of test_matcher on the same draws
\* Run 1 draws freely and records each draw; run 2, on a Matcher built anew
\* from the same groups, is handed the recorded draws in the same order.
\* Each run is cut off after MaxAttempts attempts.
RunEnded == pc = "done" \/ (pc = "generate" /\ attempts = MaxAttempts)

ReplayStart ==
    /\ attempts < MaxAttempts
    /\ StartAttempt
    /\ UNCHANGED <<calls, run, tape, history, first, mailvars>>

RecordedStep ==
    /\ run = 1
    /\ \E i \in Draws :
           /\ Iteration(i)
           /\ tape' = IF i = 0 THEN tape ELSE Append(tape, i)
    /\ UNCHANGED <<calls, run, history, first, mailvars>>

ReplayedStep ==
    /\ run = 2
    /\ pc = "loop"
    /\ unmatched # <<>>
    /\ LET pm == PossibleMatches(Tail(unmatched), Elements(sets),
                                 Head(unmatched), matches)
           draws == HasCandidates(pm) /\ pm # <<>>
       IN  IF draws /\ (tape = <<>> \/ Head(tape) > Len(pm))
             THEN /\ pc' = "diverged"
                  /\ UNCHANGED <<sets, matches, unmatched, is_valid,
                                 attempts, err, tape, before, dropped>>
             ELSE /\ Iteration(IF draws THEN Head(tape) ELSE 0)
                  /\ tape' = IF draws THEN Tail(tape) ELSE tape
    /\ UNCHANGED <<calls, run, history, first, mailvars>>

ReplayReturn ==
    /\ ReturnMatches
    /\ history' = Append(history, matches)
    /\ UNCHANGED <<calls, run, tape, first, mailvars>>

ReplayVerify == VerifyAttempt /\ UNCHANGED <<calls, run, tape, history, first, mailvars>>

\* test_matcher(sets) called a second time: matcher = Matcher(sets), line 76
SecondRun ==
    /\ run = 1
    /\ RunEnded
    /\ first' = <<history, pc, matches>>
    /\ run' = 2
    /\ matches' = NewMatches(matches)
    /\ unmatched' = <<>>
    /\ pc' = "generate"
    /\ is_valid' = FALSE
    /\ attempts' = 0
    /\ history' = <<>>
    /\ before' = EmptyMatches
    /\ dropped' = {}
    /\ UNCHANGED <<sets, err, calls, tape, mailvars>>

NextReplay ==
    \/ ReplayStart
    \/ RecordedStep
    \/ ReplayedStep
    \/ ReplayReturn
    \/ ReplayVerify
    \/ SecondRun

InitReplay == Init /\ Cardinality(Universe(sets)) <= MaxReplayElems

SpecReplay == InitReplay /\ [][NextReplay]_vars

TypeOK ==
    /\ DOMAIN matches \subseteq Universe(sets)
    /\ Values(matches) \subseteq Universe(sets)
    /\ pc \in {"generate", "loop", "verify", "done", "error"}
    /\ attempts \in 0..MaxAttempts

\* ------------------------------------------------------------------ claims

\* C1: whenever test_matcher returns, the returned assignment has exactly
\* |Universe| keys, its set of values is the Universe, and every key lies in
\* another group than its target.
ReturnedIsCrossGroupBijection ==
    pc = "done" =>
        /\ Cardinality(DOMAIN matches) = Cardinality(Universe(sets))
        /\ Values(matches) = Universe(sets)
        /\ \A k \in DOMAIN matches :
               SetIndex(sets, k) # SetIndex(sets, matches[k])

\* C1 witness: a run returned after more than one attempt.
ReturnedAfterRetry ==
    pc = "done" /\ attempts >= 2 /\ Cardinality(Universe(sets)) >= 4

\* C2: for every input with at least two non-empty groups and no majority
\* group, test_matcher eventually returns (the loop only has to keep running).
Terminates == ValidInput(sets) => <>(pc = "done")

\* C2 witness: a valid input whose run returned after a failed attempt.
ValidInputReturned ==
    ValidInput(sets) /\ pc = "done" /\ attempts >= 2 /\ is_valid

\* C3: with a group holding a strict majority of the Universe, test_matcher
\* never returns: verify_matches is false of every assignment reached and the
\* loop is still running.
NeverReturnsOnMajority ==
    HasMajorityGroup(sets) =>
        /\ pc \notin {"done", "error"}
        /\ ~verify_matches(matches, sets)
        /\ is_valid = FALSE

\* C3 witness: a majority input still looping after several failed attempts.
MajorityStillLooping ==
    /\ HasMajorityGroup(sets)
    /\ Len(sets) >= 2
    /\ attempts >= 3
    /\ pc = "generate"
    /\ matches # EmptyMatches

\* C4 (as stated): every attempt starts from an empty assignment.
AttemptStartsEmpty == pc = "generate" => matches = EmptyMatches

\* C6: with the groups {A} and {B}, test_matcher returns after its first
\* attempt, and what it returns is exactly A -> B, B -> A.
TwoSingletons == sets = <<{"A"}, {"B"}>>

TwoSingletonsTwoCycle ==
    TwoSingletons =>
        /\ attempts <= 1
        /\ pc # "error"
        /\ pc = "verify" => verify_matches(matches, sets)
        /\ pc = "done" => matches = ("A" :> "B") @@ ("B" :> "A")

\* C6 witness: the run on {A}, {B} returned.
TwoSingletonsReturned == TwoSingletons /\ pc = "done" /\ attempts = 1

\* C7: with the groups {A}, {B}, {C}, the first attempt validates whatever
\* is drawn, the returned assignment is one of the two 3-cycles, and no
\* element ever maps to itself.
ThreeSingletons == sets = <<{"A"}, {"B"}, {"C"}>>

ThreeCycles ==
    { ("A" :> "B") @@ ("B" :> "C") @@ ("C" :> "A"),
      ("A" :> "C") @@ ("C" :> "B") @@ ("B" :> "A") }

ThreeSingletonsThreeCycle ==
    ThreeSingletons =>
        /\ attempts <= 1
        /\ pc # "error"
        /\ pc = "verify" => verify_matches(matches, sets)
        /\ pc = "done" => matches \in ThreeCycles
        /\ \A k \in DOMAIN matches : matches[k] # k

\* C7 witness: the run on {A}, {B}, {C} returned the cycle A -> C -> B -> A,
\* which needs the fallback pool (B finds C taken).
ThreeSingletonsReturned ==
    /\ ThreeSingletons
    /\ pc = "done"
    /\ matches = ("A" :> "C") @@ ("C" :> "B") @@ ("B" :> "A")

\* C10: no step raises: a draw is only made from a non-empty pool, every
\* group lookup of a key or a target succeeds, and test_matcher is either
\* returned or still looping.
NoErrorState ==
    /\ pc \in {"generate", "loop", "verify", "done"}
    /\ err = "none"
    /\ \A k \in DOMAIN matches :
           SetIndex(sets, k) # 0 /\ SetIndex(sets, matches[k]) # 0

\* C10 witness: an attempt over an input with an empty group ended with an
\* element left without a target (both of its pools were empty, no draw).
ElementDroppedWithoutDraw ==
    /\ pc = "verify"
    /\ \E i \in 1..Len(sets) : sets[i] = {}
    /\ DOMAIN matches # {}
    /\ DOMAIN matches # Universe(sets)

\* C5 (as stated): verify_matches(m) is true exactly when every element is
\* a key of m, m has as many distinct targets as the Universe has elements,
\* and every key's group differs from its target's group.
SameGroup(a, b) == \E i \in 1..Len(sets) : a \in sets[i] /\ b \in sets[i]

VerifyChecksBijection ==
    calls >= 1 =>
        is_valid =
            ( /\ Universe(sets) \subseteq DOMAIN matches
              /\ Cardinality(Values(matches)) = Cardinality(Universe(sets))
              /\ \A k \in DOMAIN matches : ~SameGroup(k, matches[k]) )

\* C5 (amended): verify_matches(m) is true exactly when m has a key, every
\* element is a key of m, and every key's group differs from its target's
\* group; the targets need not be distinct.
VerifyChecksTotalCrossGroup ==
    calls >= 1 =>
        is_valid =
            ( /\ DOMAIN matches # {}
              /\ Universe(sets) \subseteq DOMAIN matches
              /\ \A k \in DOMAIN matches : ~SameGroup(k, matches[k]) )

\* C5 witness: verify_matches accepted a mapping with a repeated target.
VerifyAcceptedRepeatedTarget ==
    /\ calls >= 1
    /\ is_valid
    /\ Cardinality(Values(matches)) < Cardinality(Universe(sets))

IsPrefix(a, b) == Len(a) <= Len(b) /\ a = SubSeq(b, 1, Len(a))

AttemptWithDropFails ==
    (pc = "verify" /\ dropped # {}) =>
        /\ Cardinality(DOMAIN matches) < Cardinality(Universe(sets))
        /\ ~verify_matches(matches, sets)

\* C13: every pair e -> c recorded by an iteration has c in another group
\* than e, c # e, and c the target of no key of the assignment as it is at
\* that instant; the other keys keep their targets.
RecordedPairIsLegal ==
    [][ (pc = "loop" /\ matches' # matches) =>
          LET e == Head(unmatched)[1]
          IN  /\ DOMAIN matches' = DOMAIN matches \cup {e}
              /\ \A k \in DOMAIN matches \ {e} : matches'[k] = matches[k]
              /\ ~SameGroup(e, matches'[e])
              /\ matches'[e] # e
              /\ matches'[e] \notin Values(matches) ]_vars

\* C13 witness: a key was given a target that was in use when the attempt
\* began and had been freed by the time the pair was recorded.
TargetFreedThenTaken ==
    /\ pc \in {"loop", "verify"}
    /\ \E k \in DOMAIN matches :
           /\ matches[k] \in Values(before)
           /\ k \in DOMAIN before => before[k] # matches[k]

\* C14: when an iteration handles e and some still-pending element of
\* another group is not yet a target, e's target is drawn among those; an
\* element no longer pending is drawn only when there is none.
Pending(un) == { un[j][1] : j \in 1..Len(un) }

TwoTierSelection ==
    [][ (pc = "loop" /\ unmatched # <<>> /\ unmatched' = Tail(unmatched)) =>
          LET e == Head(unmatched)[1]
              primary == { c \in Pending(unmatched') :
                             ~SameGroup(e, c) /\ c \notin Values(matches) }
          IN  /\ primary # {} =>
                     e \in DOMAIN matches' /\ matches'[e] \in primary
              /\ (matches' # matches /\ matches'[e] \notin Pending(unmatched'))
                     => primary = {} ]_vars

\* C14 witness: in a first attempt one key has a target handled before it
\* (drawn from the fallback pool) and another a target handled after it.
NameIndex(n) == CHOOSE i \in 1..Len(Names) : Names[i] = n

BothTiersUsed ==
    /\ attempts = 1
    /\ \E k \in DOMAIN matches : NameIndex(matches[k]) < NameIndex(k)
    /\ \E k \in DOMAIN matches : NameIndex(matches[k]) > NameIndex(k)

\* C15: in every state the assignment is injective: no two distinct keys
\* have the same target.
MatchesInjective ==
    \A k1 \in DOMAIN matches : \A k2 \in DOMAIN matches :
        k1 # k2 => matches[k1] # matches[k2]

\* C15 witness: a key that had a target from an earlier attempt has been
\* given another one.
KeyRetargeted ==
    /\ attempts >= 2
    /\ pc \in {"loop", "verify"}
    /\ \E k \in DOMAIN before : matches[k] # before[k]

\* C16: no step removes a key of the assignment, so the keys only grow from
\* one attempt to the next.
KeysOnlyGrow == [][ DOMAIN matches \subseteq DOMAIN matches' ]_vars

\* C16 witness: a later attempt ended with the keys of the attempt before it
\* and more.
KeysGrewInLaterAttempt ==
    /\ attempts >= 2
    /\ pc = "verify"
    /\ DOMAIN before # {}
    /\ DOMAIN before \subseteq DOMAIN matches
    /\ DOMAIN before # DOMAIN matches

\* C17: an attempt that begins with a complete assignment (every element a
\* key and a target) changes nothing: each element handled so far found
\* both pools empty, the assignment is the one the attempt began with, and
\* verify_matches is true of it.
FurtherAttemptChangesNothing ==
    ( /\ pc \in {"loop", "verify"}
      /\ Universe(sets) # {}
      /\ DOMAIN before = Universe(sets)
      /\ Values(before) = Universe(sets) ) =>
        /\ matches = before
        /\ dropped = Universe(sets) \ Pending(unmatched)
        /\ verify_matches(matches, sets)

\* C17 witness: a further attempt on a complete assignment has ended, every
\* element having found both pools empty.
FurtherAttemptEnded ==
    /\ pc = "verify"
    /\ Cardinality(Universe(sets)) >= 3
    /\ DOMAIN before = Universe(sets)
    /\ dropped = Universe(sets)
    /\ matches = before

\* C11 (as stated and as amended).  The sender of an entry has an address
\* when the last email_mapping entry that names it gives a non-empty one.
HasAddress(name) ==
    \E j \in 1..Len(email_mapping) :
        /\ email_mapping[j][1] = name
        /\ email_mapping[j][2] # ""
        /\ \A j2 \in (j + 1)..Len(email_mapping) : email_mapping[j2][1] # name

\* The first n entries whose sender has an address, in the order of entries.
AddressedUpTo(n) ==
    LET addressed(en) == HasAddress(en[1])
    IN  SelectSeq(SubSeq(entries, 1, n), addressed)

\* One send was attempted, in order, for each entry handled so far whose
\* sender has an address, whatever the earlier sends did; each entry
\* handled left one log record, "info" exactly when its send succeeded.
SendsFollowEntries ==
    /\ Len(sends) = Len(AddressedUpTo(item - 1))
    /\ \A j \in 1..Len(sends) :
           /\ sends[j][1] # ""
           /\ sends[j][2] = AddressedUpTo(item - 1)[j][1]
           /\ sends[j][3] = AddressedUpTo(item - 1)[j][2]
    /\ mpc \in {"loop", "returned"} => Len(logs) = item - 1
    /\ \A j \in 1..(item - 1) :
           /\ logs[j][2] = entries[j][1]
           /\ logs[j][1] = "info" <=>
                  ( /\ HasAddress(entries[j][1])
                    /\ sends[Len(AddressedUpTo(j))][4] = "ok" )

\* A failure to connect, start TLS or log in is raised with nothing sent.
SessionFailureSendsNothing ==
    /\ mpc \in {"connect", "starttls", "login", "raised"} =>
           sends = <<>> /\ item = 1
    /\ mpc = "raised" => logs = << <<"error", "server">> >>

\* Once the loop is entered every entry is handled before send_mails ends,
\* and no failure inside the loop ends it.
EveryEntryHandled ==
    /\ mpc \in {"returned", "raised_at_close"} => item = Len(entries) + 1
    /\ mpc # "raised_in_loop"

\* C11 (as stated): ... and, once the session is authenticated, send_mails
\* returns normally.
SendMailsReturnsNormally ==
    /\ SendsFollowEntries
    /\ SessionFailureSendsNothing
    /\ EveryEntryHandled
    /\ mpc # "raised_at_close"

\* C11 (amended): as stated, except that send_mails may still raise after
\* every entry was handled, when closing the session fails (the server
\* answers QUIT with a code other than 221).
SendMailsHandlesEveryEntry ==
    /\ SendsFollowEntries
    /\ SessionFailureSendsNothing
    /\ EveryEntryHandled
    /\ mpc = "raised_at_close" =>
           logs[Len(logs)] = <<"error", "server">> /\ Len(logs) = item

\* C11 witness: send_mails returned after skipping a sender without an
\* address, failing a send and succeeding with the next one.
SkippedFailedThenSent ==
    /\ mpc = "returned"
    /\ Len(entries) = 3
    /\ ~HasAddress(entries[1][1])
    /\ Len(sends) = 2
    /\ sends[1][4] # "ok"
    /\ sends[2][4] = "ok"

====
